---- MODULE Spec2Model ----
(***************************************************************************)
(* Model of the Provident Fund ledger calculator (src/pf_calculator.py).   *)
(*                                                                         *)
(* The script is a Streamlit page: every user interaction re-runs it from  *)
(* top to bottom in a fresh namespace, so each run calls calculate_ledger  *)
(* once on the sidebar's opening balance and the data editor's table.      *)
(* Only the table and the sidebar value survive from one run to the next.  *)
(*                                                                         *)
(* Money amounts and interest rates are whole numbers here.  The code      *)
(* works on floats; for whole-number amounts and rates of the magnitudes   *)
(* modelled every sum and product is exact and the division by 1200 is     *)
(* correctly rounded, so round() sees a tie exactly when                   *)
(* lowest_bal * rate = 1200k + 600.  Fractional rates (the sidebar's 7.1)  *)
(* are outside the model.                                                  *)
(***************************************************************************)
EXTENDS Integers, Sequences, FiniteSets, TLC

VARIABLES
    opening_balance_input,  \* sidebar number_input (line 18)
    edited_df,              \* the data editor's table (lines 29-52)
    pc,                     \* position of the script run
    opening_bal,            \* calculate_ledger's first argument
    input_df,               \* calculate_ledger's second argument
    idx,                    \* number of rows iterrows() has delivered
    results,                \* local: the rows emitted so far
    current_bal,            \* local: running balance
    total_interest,         \* local: running interest accumulator
    returned,               \* what the run's call returned (line 99)
    first_call,             \* history: arguments and return of the first call
    prev_call               \* history: arguments and return of the latest call

vars == <<opening_balance_input, edited_df, pc, opening_bal, input_df, idx,
          results, current_bal, total_interest, returned, first_call, prev_call>>

-----------------------------------------------------------------------------
(* Bounds of the model *)

\* Only the first MaxActive months of the table carry entries; the later
\* months keep the default row (no deposit, no withdrawal, the default rate).
MaxActive == 1

\* Values the user types into the sidebar and the data editor.
OpeningChoices == {100, 600}
DefaultRateChoices == {1, 2}
DepBeforeChoices == {0, 600, 3000}
DepAfterChoices == {0, 3000}
WithdrawalChoices == {0, 500}
RateChoices == {1, 2}

\* Arguments a direct caller of calculate_ledger may pass: the function
\* validates nothing, so negative amounts and rates and any row count occur.
\* The first MaxFnActive rows carry entries, the Rate column one rate.
MaxFnActive == 2
FnOpeningChoices == {-400, 100, 600}
FnEntryChoices ==
    [Dep_Before_15 : {-500, 0, 3000}, Dep_After_15 : {0, 3000},
     Withdrawal : {0, 500}]
FnRateChoices == {-1, 1, 2}
RowCounts == {0, 11, 12, 13}

-----------------------------------------------------------------------------
(* The page's data *)

months == <<"APR", "MAY", "JUN", "JUL", "AUG", "SEP",
            "OCT", "NOV", "DEC", "JAN", "FEB", "MAR">>

\* A name that is not bound yet: an empty sequence, a bound one a 1-tuple.
NoValue == <<>>

\* One row of the default dataframe.
DefaultRow(m, default_rate) ==
    [Month |-> months[((m - 1) % Len(months)) + 1],
     Dep_Before_15 |-> 0, Dep_After_15 |-> 0, Withdrawal |-> 0,
     Rate |-> default_rate]

DefaultTable(n, default_rate) == [m \in 1..n |-> DefaultRow(m, default_rate)]

-----------------------------------------------------------------------------
(* Arithmetic of the calculation engine *)

Max0(x) == IF 0 >= x THEN 0 ELSE x

\* Python's round(n / d) for d > 0: nearest integer, ties to the even one.
PyRound(n, d) ==
    LET q == n \div d
        r == n % d
    IN  IF 2 * r < d THEN q
        ELSE IF 2 * r > d THEN q + 1
        ELSE IF q % 2 = 0 THEN q ELSE q + 1

\* Variant: the floor at zero is missing.
LowestBalNoClamp(bal, dep_before, withdrawal) == bal + dep_before - withdrawal

LowestBal(bal, dep_before, withdrawal) == Max0(bal + dep_before - withdrawal)

\* Variant: floor division (//) in place of round().
InterestFloor(lowest_bal, rate) == (lowest_bal * rate) \div 1200

\* Variant: the rate is added to the balance instead of multiplying it.
InterestSum(lowest_bal, rate) == PyRound(lowest_bal + rate, 1200)

Interest(lowest_bal, rate) == PyRound(lowest_bal * rate, 1200)

\* Variant: the closing balance is floored at zero like the lowest balance.
ClosingBalClamped(bal, dep_before, dep_after, withdrawal) ==
    Max0(bal + dep_before + dep_after - withdrawal)

ClosingBal(bal, dep_before, dep_after, withdrawal) ==
    bal + dep_before + dep_after - withdrawal

\* Variant: the row records the balance after the month's update as its opening.
ResultRowShifted(row, bal, lowest_bal, interest, closing_bal) ==
    ("Month" :> row.Month) @@
    ("Opening Balance" :> closing_bal) @@
    ("Dep (<15th)" :> row.Dep_Before_15) @@
    ("Dep (>15th)" :> row.Dep_After_15) @@
    ("Withdrawal" :> row.Withdrawal) @@
    ("Lowest Balance" :> lowest_bal) @@
    ("Rate (%)" :> row.Rate) @@
    ("Interest" :> interest) @@
    ("Closing Balance" :> closing_bal)

ResultRow(row, bal, lowest_bal, interest, closing_bal) ==
    ("Month" :> row.Month) @@
    ("Opening Balance" :> bal) @@
    ("Dep (<15th)" :> row.Dep_Before_15) @@
    ("Dep (>15th)" :> row.Dep_After_15) @@
    ("Withdrawal" :> row.Withdrawal) @@
    ("Lowest Balance" :> lowest_bal) @@
    ("Rate (%)" :> row.Rate) @@
    ("Interest" :> interest) @@
    ("Closing Balance" :> closing_bal)

\* Variant: = in place of +=.
AddInterestAssign(total, interest) == interest

AddInterest(total, interest) == total + interest

-----------------------------------------------------------------------------
(* The script run *)

\* The state a script run starts from, given the widgets' values.
Fresh(ob, df) ==
    /\ opening_balance_input = ob
    /\ edited_df = df
    /\ pc = "ready"
    /\ opening_bal = 0
    /\ input_df = <<>>
    /\ idx = 0
    /\ results = <<>>
    /\ current_bal = 0
    /\ total_interest = 0
    /\ returned = NoValue
    /\ first_call = NoValue
    /\ prev_call = NoValue

\* The page with the sidebar set and the 12-row table at its default rows,
\* the Rate column holding a whole-number rate.
Init ==
    \E ob \in OpeningChoices, default_rate \in DefaultRateChoices :
        Fresh(ob, DefaultTable(Len(months), default_rate))

\* Variant: the interest accumulator lives outside the function and is not reset.
CallKeepTotal ==
    /\ pc = "ready"
    /\ opening_bal' = opening_balance_input
    /\ input_df' = edited_df
    /\ idx' = 0
    /\ results' = <<>>
    /\ current_bal' = opening_balance_input
    /\ pc' = "loop"
    /\ UNCHANGED <<opening_balance_input, edited_df, returned, first_call,
                   prev_call, total_interest>>

\* calculate_ledger is entered: its locals are initialised.
Call ==
    /\ pc = "ready"
    /\ opening_bal' = opening_balance_input
    /\ input_df' = edited_df
    /\ idx' = 0
    /\ results' = <<>>
    /\ current_bal' = opening_balance_input
    /\ total_interest' = 0
    /\ pc' = "loop"
    /\ UNCHANGED <<opening_balance_input, edited_df, returned, first_call, prev_call>>

\* Variant: the month's interest is credited to the running balance.
LoopStepCredit ==
    /\ pc = "loop"
    /\ idx < Len(input_df)
    /\ LET row == input_df[idx + 1]
           lowest_bal == LowestBal(current_bal, row.Dep_Before_15, row.Withdrawal)
           interest == Interest(lowest_bal, row.Rate)
           closing_bal == ClosingBal(current_bal, row.Dep_Before_15,
                                     row.Dep_After_15, row.Withdrawal)
       IN  /\ results' = Append(results,
                            ResultRow(row, current_bal, lowest_bal, interest, closing_bal))
           /\ current_bal' = closing_bal + interest
           /\ total_interest' = AddInterest(total_interest, interest)
    /\ idx' = idx + 1
    /\ UNCHANGED <<opening_balance_input, edited_df, pc, opening_bal, input_df,
                   returned, first_call, prev_call>>

\* One iteration of the for loop over input_df.iterrows().
LoopStep ==
    /\ pc = "loop"
    /\ idx < Len(input_df)
    /\ LET row == input_df[idx + 1]
           lowest_bal == LowestBal(current_bal, row.Dep_Before_15, row.Withdrawal)
           interest == Interest(lowest_bal, row.Rate)
           closing_bal == ClosingBal(current_bal, row.Dep_Before_15,
                                     row.Dep_After_15, row.Withdrawal)
       IN  /\ results' = Append(results,
                            ResultRow(row, current_bal, lowest_bal, interest, closing_bal))
           /\ current_bal' = closing_bal
           /\ total_interest' = AddInterest(total_interest, interest)
    /\ idx' = idx + 1
    /\ UNCHANGED <<opening_balance_input, edited_df, pc, opening_bal, input_df,
                   returned, first_call, prev_call>>

\* Variant: the return statement sits inside the loop body.
ReturnInLoop ==
    /\ pc = "loop"
    /\ idx = IF Len(input_df) = 0 THEN 0 ELSE 1
    /\ returned' = <<[result_df |-> results,
                      total_yearly_interest |-> total_interest,
                      final_principal |-> current_bal]>>
    /\ pc' = "done"
    /\ UNCHANGED <<opening_balance_input, edited_df, opening_bal, input_df, idx,
                   results, current_bal, total_interest, first_call, prev_call>>

\* The loop is exhausted: the function returns and the script binds
\* result_df, total_yearly_interest and final_principal.
Return ==
    /\ pc = "loop"
    /\ idx = Len(input_df)
    /\ returned' = <<[result_df |-> results,
                      total_yearly_interest |-> total_interest,
                      final_principal |-> current_bal]>>
    /\ pc' = "done"
    /\ UNCHANGED <<opening_balance_input, edited_df, opening_bal, input_df, idx,
                   results, current_bal, total_interest, first_call, prev_call>>

\* The finished call, as the history variables keep it.
CallRecord == [opening_bal |-> opening_bal, input_df |-> input_df,
               returned |-> returned[1]]

\* A new script run begins: the namespace of the finished run is gone.
NewRun ==
    /\ pc = "done"
    /\ pc' = "ready"
    /\ returned' = NoValue
    /\ prev_call' = <<CallRecord>>
    /\ first_call' = IF Len(first_call) = 0 THEN <<CallRecord>> ELSE first_call
    /\ UNCHANGED <<opening_bal, input_df, idx, results, current_bal, total_interest>>

\* An interaction that changes no input (a download button) re-runs the script.
Rerun ==
    /\ NewRun
    /\ UNCHANGED <<opening_balance_input, edited_df>>

\* The user changes the sidebar's opening balance; the script re-runs.
SetOpening ==
    /\ NewRun
    /\ \E ob \in OpeningChoices \ {opening_balance_input} :
          opening_balance_input' = ob
    /\ UNCHANGED edited_df

ColumnChoices(col) ==
    CASE col = "Dep_Before_15" -> DepBeforeChoices
      [] col = "Dep_After_15" -> DepAfterChoices
      [] col = "Withdrawal" -> WithdrawalChoices
      [] col = "Rate" -> RateChoices

\* The user edits one cell of the data editor; the script re-runs.
EditCell ==
    /\ NewRun
    /\ \E m \in 1..MaxActive,
          col \in {"Dep_Before_15", "Dep_After_15", "Withdrawal", "Rate"} :
          \E v \in ColumnChoices(col) \ {edited_df[m][col]} :
              edited_df' = [edited_df EXCEPT ![m][col] = v]
    /\ UNCHANGED opening_balance_input

Next == Call \/ LoopStep \/ Return \/ Rerun \/ SetOpening \/ EditCell

Spec == Init /\ [][Next]_vars

-----------------------------------------------------------------------------
(* calculate_ledger under a direct caller *)

\* A table of n rows whose first MaxFnActive rows are the caller's entries.
FnTable(n, active, rate) ==
    [m \in 1..n |->
        IF m <= MaxFnActive
        THEN [Month |-> DefaultRow(m, rate).Month,
              Dep_Before_15 |-> active[m].Dep_Before_15,
              Dep_After_15 |-> active[m].Dep_After_15,
              Withdrawal |-> active[m].Withdrawal,
              Rate |-> rate]
        ELSE DefaultRow(m, rate)]

\* The caller holds any opening balance and any table, of any row count.
InitFn ==
    \E ob \in FnOpeningChoices, n \in RowCounts, rate \in FnRateChoices,
       active \in [1..MaxFnActive -> FnEntryChoices] :
        Fresh(ob, FnTable(n, active, rate))

\* The caller applies the function to its arguments once.
NextFn == Call \/ LoopStep \/ Return

SpecFn == InitFn /\ [][NextFn]_vars

-----------------------------------------------------------------------------
(* Properties of calculate_ledger, checked under SpecFn *)

Abs(x) == IF x < 0 THEN -x ELSE x

Range(seq) == {seq[i] : i \in 1..Len(seq)}

RECURSIVE SumField(_, _)
SumField(rows, f) ==
    IF Len(rows) = 0 THEN 0 ELSE rows[1][f] + SumField(Tail(rows), f)

\* The raw figure of month i: opening balance + deposit before the 15th - withdrawal.
RawLowest(rows, df, i) ==
    rows[i]["Opening Balance"] + df[i].Dep_Before_15 - df[i].Withdrawal

Threaded(rows, df, ob) ==
    \A i \in 1..Len(rows) :
        /\ rows[i]["Month"] = df[i].Month
        /\ rows[i]["Opening Balance"] =
              IF i = 1 THEN ob ELSE rows[i - 1]["Closing Balance"]

\* C1: a 12-row input yields exactly 12 result rows in input month order; row
\* 1 opens with the opening balance argument, every later row opens with the
\* closing balance of the row before it, and the returned final principal is
\* the last row's closing balance.
C1_BalancesThreaded ==
    /\ Len(results) <= Len(input_df)
    /\ Threaded(results, input_df, opening_bal)
    /\ pc = "done" =>
          LET r == returned[1] IN
          /\ Len(input_df) = Len(months) => Len(r.result_df) = Len(months)
          /\ Threaded(r.result_df, input_df, opening_bal)
          /\ Len(r.result_df) > 0 =>
                r.final_principal = r.result_df[Len(r.result_df)]["Closing Balance"]

\* A finished 12-row ledger whose balance moved in two months and went negative.
C1_Witness ==
    /\ pc = "done"
    /\ Len(input_df) = Len(months)
    /\ Len(returned[1].result_df) = Len(months)
    /\ opening_bal # 0
    /\ returned[1].result_df[2]["Opening Balance"] # opening_bal
    /\ returned[1].result_df[3]["Opening Balance"] #
          returned[1].result_df[2]["Opening Balance"]
    /\ returned[1].final_principal < 0

\* C2: the running interest accumulator starts at 0 and at every point of the
\* scan equals the sum of the Interest values of the rows emitted so far; the
\* returned total interest is the sum of the Interest values of the result rows.
C2_TotalInterestIsSum ==
    /\ (pc = "loop" /\ idx = 0) => total_interest = 0
    /\ Len(results) = idx
    /\ total_interest = SumField(results, "Interest")
    /\ pc = "done" =>
          returned[1].total_yearly_interest =
             SumField(returned[1].result_df, "Interest")

\* A finished 12-row ledger in which several months earned different interest.
C2_Witness ==
    /\ pc = "done"
    /\ Len(returned[1].result_df) = Len(months)
    /\ returned[1].total_yearly_interest > 0
    /\ \E i, j \in 1..Len(results) :
          /\ results[i]["Interest"] > 0
          /\ results[j]["Interest"] > results[i]["Interest"]

\* C3: in every result row Lowest Balance = max(0, Opening Balance + deposit
\* before the cutoff - withdrawal), for negative opening balances, negative
\* deposits and overdrawn months too; it is never negative and the deposit
\* after the cutoff has no part in it.
C3_LowestBalanceFloored ==
    \A i \in 1..Len(results) :
        LET raw == RawLowest(results, input_df, i) IN
        /\ results[i]["Lowest Balance"] = IF raw > 0 THEN raw ELSE 0
        /\ results[i]["Lowest Balance"] >= 0

\* A ledger with a negative opening balance, an overdrawn month that also has
\* a deposit after the cutoff, and a month with a negative deposit.
C3_Witness ==
    /\ pc = "done"
    /\ opening_bal < 0
    /\ \E i \in 1..Len(results) :
          /\ RawLowest(results, input_df, i) < 0
          /\ input_df[i].Withdrawal > 0
          /\ input_df[i].Dep_After_15 > 0
          /\ results[i]["Lowest Balance"] = 0
    /\ \E j \in 1..Len(results) :
          /\ input_df[j].Dep_Before_15 < 0
          /\ results[j]["Lowest Balance"] > 0

\* C4: in every result row Interest is an integer nearest to
\* Lowest Balance * Rate / 1200 (|1200 * Interest - Lowest Balance * Rate| <= 600);
\* it is 0 when Lowest Balance is 0 and non-negative when Rate is non-negative.
C4_InterestNearest ==
    \A i \in 1..Len(results) :
        LET lb == results[i]["Lowest Balance"]
            rate == results[i]["Rate (%)"]
            interest == results[i]["Interest"]
        IN  /\ interest \in Int
            /\ Abs(1200 * interest - lb * rate) <= 600
            /\ lb = 0 => interest = 0
            /\ rate >= 0 => interest >= 0

\* A ledger with a month whose interest was rounded up, one whose interest was
\* rounded down, and one without balance.
C4_Witness ==
    /\ pc = "done"
    /\ \E i, j, k \in 1..Len(results) :
          /\ 1200 * results[i]["Interest"] >
                results[i]["Lowest Balance"] * results[i]["Rate (%)"]
          /\ 1200 * results[j]["Interest"] <
                results[j]["Lowest Balance"] * results[j]["Rate (%)"]
          /\ results[j]["Interest"] > 0
          /\ results[k]["Lowest Balance"] = 0

\* Month i is overdrawn: the withdrawal exceeds opening balance plus deposit
\* before the cutoff, and the deposit after the cutoff does not cover the gap.
Overdrawn(rows, df, i) ==
    /\ RawLowest(rows, df, i) < 0
    /\ RawLowest(rows, df, i) + df[i].Dep_After_15 < 0

\* C7: an overdrawn month has Lowest Balance 0 and Interest 0 but a negative,
\* unclamped Closing Balance, which is the next month's Opening Balance; every
\* later month keeps Lowest Balance 0 and Interest 0 as long as no month's
\* running balance + deposit before the cutoff - withdrawal is positive again.
C7_OverdraftPropagates ==
    \A i \in 1..Len(results) :
        Overdrawn(results, input_df, i) =>
            /\ results[i]["Lowest Balance"] = 0
            /\ results[i]["Interest"] = 0
            /\ results[i]["Closing Balance"] < 0
            /\ results[i]["Closing Balance"] =
                  RawLowest(results, input_df, i) + input_df[i].Dep_After_15
            /\ i < Len(results) =>
                  results[i + 1]["Opening Balance"] = results[i]["Closing Balance"]
            /\ i = Len(results) => current_bal = results[i]["Closing Balance"]
            /\ \A j \in (i + 1)..Len(results) :
                  IF \A k \in (i + 1)..j : RawLowest(results, input_df, k) <= 0
                  THEN /\ results[j]["Lowest Balance"] = 0
                       /\ results[j]["Interest"] = 0
                  ELSE \E k \in (i + 1)..j : results[k]["Lowest Balance"] > 0

\* Opening balance 100 and a withdrawal of 500 with no deposit in the first
\* month: the balance is -400 from then on; a deposit in the second month
\* lifts the raw figure above zero again and interest resumes.
C7_Witness ==
    /\ pc = "done"
    /\ Len(results) = Len(months)
    /\ opening_bal = 100
    /\ Overdrawn(results, input_df, 1)
    /\ results[1]["Closing Balance"] = -400
    /\ results[2]["Opening Balance"] = -400
    /\ results[2]["Lowest Balance"] > 0
    /\ results[2]["Interest"] > 0

\* C9 as claimed: whatever the row count of the input table, a call that
\* returns returns exactly 12 rows.
C9_AlwaysTwelveRows ==
    pc = "done" => Len(returned[1].result_df) = Len(months)

\* C9 as the code has it: a call on a table of any row count returns, with
\* exactly one result row per input row, hence 12 rows for a 12-row table.
C9_OneRowPerInputRow ==
    /\ pc = "done" => Len(returned[1].result_df) = Len(input_df)
    /\ (pc = "loop" /\ idx = Len(input_df)) => ENABLED Return

\* A call on an 11-row table has returned an 11-row result.
C9_Witness ==
    /\ pc = "done"
    /\ Len(input_df) = 11
    /\ Len(returned[1].result_df) = 11

-----------------------------------------------------------------------------
(* Properties of the page's successive runs, checked under Spec *)

\* The earlier calls the history variables remember.
Remembered == Range(prev_call) \cup Range(first_call)

\* A table without its Rate column.
RateFree(df) ==
    [i \in 1..Len(df) |->
        [Month |-> df[i].Month, Dep_Before_15 |-> df[i].Dep_Before_15,
         Dep_After_15 |-> df[i].Dep_After_15, Withdrawal |-> df[i].Withdrawal]]

\* The balance columns of a result.
Balances(rows) ==
    [i \in 1..Len(rows) |->
        <<rows[i]["Opening Balance"], rows[i]["Lowest Balance"],
          rows[i]["Closing Balance"]>>]

\* What a result row says of its interest.
InterestFacts(rows) ==
    {[lowest |-> rows[i]["Lowest Balance"], rate |-> rows[i]["Rate (%)"],
      interest |-> rows[i]["Interest"]] : i \in 1..Len(rows)}

\* The months at hand: the running call's and the remembered calls'.
AllMonths ==
    InterestFacts(results)
       \cup UNION {InterestFacts(c.returned.result_df) : c \in Remembered}

\* Lowest Balance * Rate / 1200 lies exactly halfway between two integers.
IsTie(row) == (row["Lowest Balance"] * row["Rate (%)"]) % 1200 = 600

\* C5: when Lowest Balance * Rate / 1200 lies exactly halfway between two
\* whole numbers the Interest is the one farther from zero (600 at rate 1
\* earns 1, 3000 at rate 1 earns 3).
C5_HalfAwayFromZero ==
    \A row \in Range(results) :
        IsTie(row) =>
            LET x == row["Lowest Balance"] * row["Rate (%)"] IN
            row["Interest"] =
                IF x >= 0 THEN (x + 600) \div 1200 ELSE (x - 600) \div 1200

\* C6: interest is never folded into the running balance.  Every row's Closing
\* Balance is Opening Balance + both deposits - withdrawal; the final principal
\* is the opening balance + all deposits - all withdrawals; and two calls that
\* differ only in the Rate column agree on every Opening, Lowest and Closing
\* Balance and on the final principal.
C6_InterestNotFolded ==
    /\ \A i \in 1..Len(results) :
          results[i]["Closing Balance"] =
             results[i]["Opening Balance"] + input_df[i].Dep_Before_15
                + input_df[i].Dep_After_15 - input_df[i].Withdrawal
    /\ pc = "done" =>
          /\ returned[1].final_principal =
                opening_bal + SumField(input_df, "Dep_Before_15")
                   + SumField(input_df, "Dep_After_15")
                   - SumField(input_df, "Withdrawal")
          /\ \A c \in Remembered :
                (c.opening_bal = opening_bal
                   /\ RateFree(c.input_df) = RateFree(input_df)) =>
                     /\ Balances(c.returned.result_df) =
                           Balances(returned[1].result_df)
                     /\ c.returned.final_principal = returned[1].final_principal

\* Two finished calls on tables that differ in the Rate column only, with
\* deposits, which earned different total interest.
C6_Witness ==
    /\ pc = "done"
    /\ \E c \in Remembered :
          /\ c.opening_bal = opening_bal
          /\ RateFree(c.input_df) = RateFree(input_df)
          /\ c.input_df # input_df
          /\ c.returned.total_yearly_interest > returned[1].total_yearly_interest
          /\ returned[1].total_yearly_interest > 0
          /\ returned[1].final_principal > opening_bal

\* C8 as claimed: two months with the same Lowest Balance and non-negative
\* rates r1 < r2 have exactly proportional interests,
\* Interest1 * r2 = Interest2 * r1, and Interest1 <= Interest2.
C8_ExactlyProportional ==
    \A a, b \in AllMonths :
        (a.lowest = b.lowest /\ 0 <= a.rate /\ a.rate < b.rate) =>
            /\ a.interest * b.rate = b.interest * a.rate
            /\ a.interest <= b.interest

\* C8 as the code has it: the interests are monotonic in the rate and
\* proportional up to the rounding of each to a whole number:
\* Interest1 <= Interest2 and 2 * |Interest1 * r2 - Interest2 * r1| <= r1 + r2.
C8_ProportionalUpToRounding ==
    \A a, b \in AllMonths :
        (a.lowest = b.lowest /\ 0 <= a.rate /\ a.rate < b.rate) =>
            /\ a.interest <= b.interest
            /\ 2 * Abs(a.interest * b.rate - b.interest * a.rate)
                  <= a.rate + b.rate

\* Two months of one ledger with the same positive Lowest Balance and different
\* rates, whose interests differ, and a month of an earlier call with that
\* Lowest Balance at another rate.
C8_Witness ==
    /\ \E a, b \in InterestFacts(results) :
          /\ a.lowest = b.lowest
          /\ a.rate < b.rate
          /\ 0 < a.interest
          /\ a.interest < b.interest
    /\ \E a \in InterestFacts(results) :
          \E c \in Remembered : \E b \in InterestFacts(c.returned.result_df) :
             /\ a.lowest = b.lowest
             /\ a.lowest > 0
             /\ a.rate # b.rate

\* C10: calculate_ledger is stateless.  A call starts from fresh accumulators
\* whatever ran before, leaves its arguments and the table it was given as
\* they were, and returns the same rows, total interest and final principal
\* as any earlier call on the same opening balance and the same table, other
\* calls on other inputs having run before or between the two.
C10_Stateless ==
    /\ (pc = "loop" /\ idx = 0) =>
          /\ results = <<>>
          /\ total_interest = 0
          /\ current_bal = opening_bal
    /\ pc \in {"loop", "done"} =>
          /\ opening_bal = opening_balance_input
          /\ input_df = edited_df
    /\ pc = "done" =>
          \A c \in Remembered :
              (c.opening_bal = opening_bal /\ c.input_df = input_df) =>
                  c.returned = returned[1]

\* The first call's inputs are back after a call on another table: the latest
\* call repeats the first call's inputs, the call before it had another table,
\* and interest was earned.
C10_Witness ==
    /\ pc = "done"
    /\ Len(first_call) = 1
    /\ Len(prev_call) = 1
    /\ first_call[1].opening_bal = opening_bal
    /\ first_call[1].input_df = input_df
    /\ prev_call[1].input_df # input_df
    /\ prev_call[1].returned.total_yearly_interest # returned[1].total_yearly_interest
    /\ returned[1].total_yearly_interest > 0

====
